---- MODULE Spec2Model ----
(***************************************************************************)
(* Model of src/process/sysdep_DARWIN.c: the Darwin backend of monit's     *)
(* process/system resource gathering.                                      *)
(*                                                                         *)
(*   init_process_info_sysdep   one-time host probe (+ _isSipEnabled)      *)
(*   initprocesstree_sysdep     process snapshot, modelled step by step    *)
(*   used_system_memory_sysdep  memory/swap sample                         *)
(*   used_system_cpu_sysdep     cpu percentage sample                      *)
(*                                                                         *)
(* Kernel answers (sysctl, Mach calls) are inputs drawn with \E.  Strings  *)
(* are sequences of byte values; the argument buffer is a function on      *)
(* offsets 0..size, as in the C code.                                      *)
(***************************************************************************)
EXTENDS Integers, Sequences, FiniteSets, TLC

VARIABLES
    \* ---- file-scope statics (lines 82-87) and the global systeminfo
    initialized,      \* "no" | "ok" | "failed": outcome of init_process_info_sysdep
    hz,
    pagesize_kbyte,
    total_old,
    cpu_user_old,
    cpu_syst_old,
    isSipEnabled,
    systeminfo,
    \* ---- used_system_cpu_sysdep: call bookkeeping and the kernel's counters
    ncalls,           \* number of used_system_cpu_sysdep invocations so far
    cpu_ret,          \* return value of the latest invocation
    k_ticks,          \* kernel cpu_ticks[] as of the latest invocation
    \* ---- used_system_memory_sysdep
    mem_ret,          \* return value of the latest invocation
    k_vm,             \* the kernel's answers to the latest invocation
    \* ---- initprocesstree_sysdep
    pc,               \* position inside initprocesstree_sysdep ("idle" outside)
    kprocs,           \* the kernel's process table as answered to this call
    treesize,
    pt,
    i,
    pass,             \* 1: block of lines 286-317, 2: block of lines 318-347
    j,
    threadtable_size,
    args,             \* the argument buffer, offsets 0..size
    args_size,
    ports,            \* Mach port rights held (task port, thread ports)
    vmarrays,         \* thread arrays held (vm_deallocate pending)
    tree_ret,         \* return value of the latest call (-1 while running)
    reference,        \* *reference as set by the latest call
    g_ok,             \* every task/thread query made for process i succeeded
    g_task,           \* task times answered in the current pass
    g_thr,            \* thread answers of the current pass, in order
    \* ---- the argument decoder applied on its own (lines 242-271)
    cmdline,          \* StringBuffer content after the decode
    maxread,          \* highest buffer offset the decode read (-1: none)
    ndecoded,         \* processes decoded so far
    g_blob            \* how the kernel built the blob just decoded

vars == <<initialized, hz, pagesize_kbyte, total_old, cpu_user_old,
          cpu_syst_old, isSipEnabled, systeminfo, ncalls, cpu_ret,
          k_ticks, mem_ret, k_vm, pc, kprocs,
          treesize, pt, i, pass, j, threadtable_size, args, args_size, ports,
          vmarrays, tree_ret, reference, g_ok, g_task, g_thr, cmdline,
          maxread, ndecoded, g_blob>>

hostVars == <<initialized, hz, pagesize_kbyte, isSipEnabled>>
cpuVars  == <<total_old, cpu_user_old, cpu_syst_old, ncalls, cpu_ret,
              k_ticks>>
memVars  == <<mem_ret, k_vm>>
treeVars == <<pc, kprocs, treesize, pt, i, pass, j, threadtable_size,
              ports, vmarrays, tree_ret, reference, g_ok, g_task, g_thr>>
bufVars  == <<args, args_size>>
decVars  == <<cmdline, maxread, ndecoded, g_blob>>

----------------------------------------------------------------------------
(* Bounds                                                                  *)

MaxTick    == 1     \* each kernel cpu tick counter ranges over 0..MaxTick
MaxCalls   == 2     \* used_system_cpu_sysdep invocations explored
MaxPages   == 1     \* wire_count and active_count range over 0..MaxPages
MaxProcs   == 2     \* entries in the kernel process table
MaxThreads == 1     \* threads task_threads may report
MaxArgs    == 2     \* argument fields in a kernel argument blob
MaxPad     == 1     \* extra NUL padding after the executable path

----------------------------------------------------------------------------
(* Program constants                                                       *)

CPU_STATE_MAX == 4
NotComputable == -10

CPU_STATE_USER   == 0
CPU_STATE_SYSTEM == 1

NUL == 0
SP  == 32

Min(a, b) == IF a < b THEN a ELSE b
Max(a, b) == IF a > b THEN a ELSE b

(* C integer division and the (int) cast of a double: towards zero. *)
TruncDiv(a, b) == IF a >= 0 THEN a \div b ELSE -((-a) \div b)

----------------------------------------------------------------------------
(* systeminfo: the fields this file writes                                 *)

SystemInfo0 == [cpus |-> 0, mem_kbyte_max |-> 0, total_mem_kbyte |-> 0,
                swap_kbyte_max |-> 0, total_swap_kbyte |-> 0,
                total_cpu_user_percent |-> 0, total_cpu_syst_percent |-> 0,
                total_cpu_wait_percent |-> 0]

----------------------------------------------------------------------------
(* _isSipEnabled, lines 100-135.  privOk: host_processor_set_priv          *)
(* succeeded; tasksOk: processor_set_tasks succeeded; pids: the pids of    *)
(* the tasks it listed.                                                    *)

SipEnabled(privOk, tasksOk, pids) ==
    IF ~privOk THEN TRUE
    ELSE IF ~tasksOk THEN TRUE
    ELSE ~(1 \in pids)

PageSizes == {4096}
MemSizes  == {8388608}
TaskPids  == SUBSET {1, 7}

(* init_process_info_sysdep, lines 141-184.  failAt = 0: every sysctl     *)
(* succeeds; 1..4: the failAt-th sysctl fails and the function returns     *)
(* false with the earlier results already stored.                          *)
init_process_info_sysdep ==
    /\ initialized = "no"
    /\ \E failAt \in 0..4, page \in PageSizes, memsize \in MemSizes,
          privOk \in BOOLEAN, tasksOk \in BOOLEAN, pids \in TaskPids :
        /\ hz' = IF failAt = 1 THEN hz ELSE 100
        /\ systeminfo' =
             IF failAt = 1 THEN systeminfo
             ELSE IF failAt = 2 THEN systeminfo
             ELSE IF failAt = 3 THEN [systeminfo EXCEPT !.cpus = 2]
             ELSE [systeminfo EXCEPT !.cpus = 2,
                                     !.mem_kbyte_max = memsize \div 1024]
        /\ pagesize_kbyte' = IF failAt = 0 THEN page \div 1024
                             ELSE pagesize_kbyte
        /\ isSipEnabled' = IF failAt = 0 THEN SipEnabled(privOk, tasksOk, pids)
                           ELSE isSipEnabled
        /\ initialized' = IF failAt = 0 THEN "ok" ELSE "failed"
    /\ UNCHANGED <<cpuVars, memVars, treeVars, bufVars, decVars>>

----------------------------------------------------------------------------
(* used_system_cpu_sysdep, lines 405-430                                   *)

CpuStates == 0..(CPU_STATE_MAX - 1)
TickReadings == [CpuStates -> 0..MaxTick]

RECURSIVE SumTicks(_, _)
SumTicks(t, n) == IF n = 0 THEN 0 ELSE t[n - 1] + SumTicks(t, n - 1)

(* lines 415-416 *)
TotalNew(t) == SumTicks(t, CPU_STATE_MAX)

(* variant: the percentage taken from the raw counter, not from its delta *)
CpuPercent_nodelta(total, ticks, old) ==
    IF total > 0 THEN TruncDiv(1000 * ticks, total) ELSE NotComputable

(* lines 420-421: one percentage *)
CpuPercent(total, ticks, old) ==
    IF total > 0 THEN TruncDiv(1000 * (ticks - old), total) ELSE NotComputable

(* variant: the user/system accumulators are stored only together with a   *)
(* computed percentage, not with a sentinel result                         *)
used_system_cpu_sysdep_keepold ==
    /\ ncalls < MaxCalls
    /\ \E ok \in BOOLEAN, t \in TickReadings :
        /\ k_ticks' = t
        /\ cpu_ret' = ok
        /\ ncalls' = ncalls + 1
        /\ IF ok
           THEN LET total == TotalNew(t) - total_old IN
                /\ total_old' = TotalNew(t)
                /\ systeminfo' = [systeminfo EXCEPT
                     !.total_cpu_user_percent =
                         CpuPercent(total, t[CPU_STATE_USER], cpu_user_old),
                     !.total_cpu_syst_percent =
                         CpuPercent(total, t[CPU_STATE_SYSTEM], cpu_syst_old),
                     !.total_cpu_wait_percent = 0]
                /\ cpu_user_old' = IF total > 0 THEN t[CPU_STATE_USER]
                                   ELSE cpu_user_old
                /\ cpu_syst_old' = IF total > 0 THEN t[CPU_STATE_SYSTEM]
                                   ELSE cpu_syst_old
           ELSE UNCHANGED <<total_old, cpu_user_old, cpu_syst_old,
                            systeminfo>>
    /\ UNCHANGED <<hostVars, memVars, treeVars, bufVars, decVars>>

(* ok: host_statistics(HOST_CPU_LOAD_INFO) returned KERN_SUCCESS;          *)
(* t: the kernel's counters at the time of the call.                       *)
used_system_cpu_sysdep ==
    /\ ncalls < MaxCalls
    /\ \E ok \in BOOLEAN, t \in TickReadings :
        /\ k_ticks' = t
        /\ cpu_ret' = ok
        /\ ncalls' = ncalls + 1
        /\ IF ok
           THEN LET total == TotalNew(t) - total_old IN
                /\ total_old' = TotalNew(t)
                /\ systeminfo' = [systeminfo EXCEPT
                     !.total_cpu_user_percent =
                         CpuPercent(total, t[CPU_STATE_USER], cpu_user_old),
                     !.total_cpu_syst_percent =
                         CpuPercent(total, t[CPU_STATE_SYSTEM], cpu_syst_old),
                     !.total_cpu_wait_percent = 0]
                /\ cpu_user_old' = t[CPU_STATE_USER]
                /\ cpu_syst_old' = t[CPU_STATE_SYSTEM]
           ELSE UNCHANGED <<total_old, cpu_user_old, cpu_syst_old,
                            systeminfo>>
    /\ UNCHANGED <<hostVars, memVars, treeVars, bufVars, decVars>>

----------------------------------------------------------------------------
(* used_system_memory_sysdep, lines 374-398                                *)

SwapBytes == {0, 2048, 4096}
VmAnswers == [memok : BOOLEAN, wire : 0..MaxPages, active : 0..MaxPages,
              swapok : BOOLEAN, xsu_total : SwapBytes, xsu_used : SwapBytes]

(* line 383; the page counts of the model stay far below the 32-bit range *)
UsedMemKbyte(wire, active, pagekb) == (wire + active) * pagekb

used_system_memory_sysdep ==
    /\ initialized = "ok"
    /\ \E a \in VmAnswers :
        /\ a.xsu_used <= a.xsu_total
        /\ k_vm' = a
        /\ IF ~a.memok
           THEN /\ mem_ret' = FALSE
                /\ UNCHANGED systeminfo
           ELSE IF ~a.swapok
           THEN /\ mem_ret' = FALSE
                /\ systeminfo' = [systeminfo EXCEPT
                     !.total_mem_kbyte =
                         UsedMemKbyte(a.wire, a.active, pagesize_kbyte),
                     !.swap_kbyte_max = 0]
           ELSE /\ mem_ret' = TRUE
                /\ systeminfo' = [systeminfo EXCEPT
                     !.total_mem_kbyte =
                         UsedMemKbyte(a.wire, a.active, pagesize_kbyte),
                     !.swap_kbyte_max = a.xsu_total \div 1024,
                     !.total_swap_kbyte = a.xsu_used \div 1024]
    /\ UNCHANGED <<hostVars, cpuVars, treeVars, bufVars, decVars>>

----------------------------------------------------------------------------
(* The KERN_PROCARGS2 decoder, lines 242-275                               *)

(* Fields of a kernel blob and the executable path used by the model.      *)
ArgFields == {<<45, 108>>, <<97>>, <<SP, 98>>}
ExeName   == <<47, 120>>
ArgCounts == {0, 1, 2, 128, 256}

(* size: the KERN_ARGMAX answer (lines 220-230); large enough for every    *)
(* blob the model's kernel produces.                                       *)
ArgMax == 4 + Len(ExeName) + 1 + MaxPad + 3 * MaxArgs

(* line 229: CALLOC(1, args_size + 1) *)
ZeroBuffer == [o \in 0..ArgMax |-> NUL]

(* sysctl(KERN_PROCARGS2) copies the blob to the start of the buffer and   *)
(* leaves the rest of the buffer as it was (line 246).                     *)
SysctlProcargs2(buf, blob) ==
    [o \in DOMAIN buf |-> IF o < Len(blob) THEN blob[o + 1] ELSE buf[o]]

(* line 256: int argc = *args, args being a char pointer (char is signed   *)
(* on Darwin)                                                              *)
SignedChar(b) == IF b >= 128 THEN b - 256 ELSE b

RECURSIVE StrLen(_, _)
StrLen(buf, p) == IF buf[p] = NUL THEN 0 ELSE 1 + StrLen(buf, p + 1)

(* the C string starting at offset p *)
CStr(buf, p) == [k \in 1..StrLen(buf, p) |-> buf[p + k - 1]]

(* lines 260-267.  out: the StringBuffer; hi: highest offset read so far.  *)
RECURSIVE ArgLoop(_, _, _, _, _, _)
ArgLoop(buf, L, argc, p, out, hi) ==
    IF argc = 0 \/ p >= L
    THEN [out |-> out, hi |-> hi]
    ELSE IF buf[p] = NUL
    THEN ArgLoop(buf, L, argc, p + 1, out, Max(hi, p))
    ELSE LET n == StrLen(buf, p) IN
         ArgLoop(buf, L, argc - 1, p + n, out \o CStr(buf, p) \o <<SP>>,
                 Max(hi, p + n))

(* lines 256-267: the decode of a buffer of declared length L *)
DecodeArgs(buf, L) ==
    LET argc == SignedChar(buf[0])
        n0   == StrLen(buf, 4)
    IN  ArgLoop(buf, L, argc, 4 + n0, <<>>, 4 + n0)

IsSpace(b) == b \in {SP, 9, 10, 11, 12, 13}

RECURSIVE TrimLeft(_)
TrimLeft(s) == IF s # <<>> /\ IsSpace(Head(s)) THEN TrimLeft(Tail(s)) ELSE s

RECURSIVE TrimRight(_)
TrimRight(s) == IF s # <<>> /\ IsSpace(s[Len(s)])
                THEN TrimRight(SubSeq(s, 1, Len(s) - 1)) ELSE s

(* StringBuffer_trim *)
Trim(s) == TrimRight(TrimLeft(s))

(* lines 268-269: the command line taken from the StringBuffer; <<>>       *)
(* stands for a NULL or empty cmdline.                                     *)
CmdlineOf(buf, L) ==
    LET out == DecodeArgs(buf, L).out IN
    IF Len(out) > 0 THEN Trim(out) ELSE <<>>

(* lines 272-275 *)
WithFallback(cmd, comm) == IF cmd = <<>> THEN comm ELSE cmd

(* ---- blobs as the kernel lays them out (comment at lines 247-255) ---- *)

LE4(n) == <<n % 256, (n \div 256) % 256, (n \div 65536) % 256,
            (n \div 16777216) % 256>>

Zeros(n) == [k \in 1..n |-> NUL]

RECURSIVE Terminated(_)
Terminated(fields) ==
    IF fields = <<>> THEN <<>>
    ELSE Head(fields) \o <<NUL>> \o Terminated(Tail(fields))

FieldSeqs == UNION {[1..n -> ArgFields] : n \in 0..MaxArgs}

BlobShapes == [n : ArgCounts, pad : 0..MaxPad, fields : FieldSeqs,
               cut : {0, 1}]

(* cut = 1: the declared length stops one byte short, so that the last     *)
(* field has no terminating NUL inside it.                                 *)
BlobBytes(b) ==
    LET whole == LE4(b.n) \o ExeName \o <<NUL>> \o Zeros(b.pad)
                 \o Terminated(b.fields)
    IN  SubSeq(whole, 1, Len(whole) - b.cut)

NoBlob == [n |-> 0, pad |-> 0, fields |-> <<>>, cut |-> 0]

(* One process's argument query and decode, lines 242-271, on the buffer   *)
(* that the loop reuses from process to process.                           *)
procargs_decode ==
    /\ pc = "idle"
    /\ ndecoded < MaxProcs
    /\ ndecoded' = ndecoded + 1
    /\ \E b \in BlobShapes :
        LET blob == BlobBytes(b)
            buf  == SysctlProcargs2(args, blob)
        IN  /\ args' = buf
            /\ args_size' = Len(blob)
            /\ cmdline' = CmdlineOf(buf, Len(blob))
            /\ maxread' = DecodeArgs(buf, Len(blob)).hi
            /\ g_blob' = b
    /\ UNCHANGED <<hostVars, systeminfo, cpuVars, memVars, treeVars>>

----------------------------------------------------------------------------
(* initprocesstree_sysdep, lines 192-355                                   *)

SZOMB == 5

(* struct kinfo_proc entries the model's kernel can report *)
KProcEntries ==
    { [p_pid |-> 1, e_ppid |-> 0, p_ruid |-> 0, cr_uid |-> 0, p_rgid |-> 0,
       p_starttime |-> 100, p_comm |-> <<108>>, p_stat |-> 2],
      [p_pid |-> 7, e_ppid |-> 1, p_ruid |-> 501, cr_uid |-> 502,
       p_rgid |-> 20, p_starttime |-> 160, p_comm |-> <<122>>,
       p_stat |-> SZOMB] }

KProcTables == UNION {[1..n -> KProcEntries] : n \in 1..MaxProcs}

(* argument blobs the kernel answers with during a scan *)
ScanBlobs == { [n |-> 1, pad |-> 1, fields |-> <<<<45, 108>>>>, cut |-> 0] }

(* time_value_t pairs (user and system seconds/microseconds) answered for  *)
(* a task and for a thread                                                 *)
TaskTimes   == { [us |-> 1, uu |-> 60000, ss |-> 0, su |-> 50000] }
ThreadTimes == { [us |-> 0, uu |-> 150000, ss |-> 0, su |-> 150000] }
NoTime == [us |-> 0, uu |-> 0, ss |-> 0, su |-> 0]

ResidentSizes == {5120}

(* the cputime expression of lines 298, 307, 329, 338 *)
CpuTimeOf(t) == (t.us + t.ss) * 10 + (t.uu + t.su) \div 100000

(* a CALLOC'ed ProcessTree_T entry (line 218) *)
ZeroProcess == [pid |-> 0, ppid |-> 0, uid |-> 0, euid |-> 0, gid |-> 0,
                starttime |-> 0, cmdline |-> <<>>, zombie |-> FALSE,
                mem_kbyte |-> 0, cputime |-> 0, cpu_percent |-> 0]

(* where control goes after one enrichment block: from the block guarded   *)
(* by isSipEnabled (286-317) to the unguarded one (318-347), and from      *)
(* there to the next process.  ok: every query for this process has        *)
(* succeeded so far; the record of the answers restarts with each block.   *)
AfterBlock(ok) ==
    /\ g_task' = NoTime
    /\ g_thr' = <<>>
    /\ IF pass = 1
       THEN /\ pass' = 2
            /\ pc' = "task_for_pid"
            /\ i' = i
            /\ g_ok' = ok
       ELSE /\ pass' = 1
            /\ pc' = "proc"
            /\ i' = i + 1
            /\ g_ok' = TRUE

(* lines 203-231: the process table and argument-size queries.             *)
(* outcome: which sysctl fails, if any.  *reference is the caller's out    *)
(* parameter, taken as unset on entry.                                     *)
scan_begin ==
    /\ pc = "idle"
    /\ initialized = "ok"
    /\ \E outcome \in {"size_fails", "fill_fails", "argmax_fails", "ok"},
          tbl \in KProcTables :
        /\ reference' = <<>>
        /\ IF outcome = "ok"
           THEN /\ kprocs' = tbl
                /\ treesize' = Len(tbl)
                /\ pt' = [k \in 1..Len(tbl) |-> ZeroProcess]
                /\ args' = ZeroBuffer
                /\ args_size' = ArgMax
                /\ i' = 0
                /\ pc' = "proc"
                /\ tree_ret' = -1
           ELSE /\ kprocs' = <<>>
                /\ treesize' = 0
                /\ pt' = <<>>
                /\ tree_ret' = 0
                /\ UNCHANGED <<args, args_size, i, pc>>
    /\ UNCHANGED <<hostVars, systeminfo, cpuVars, memVars, pass, j,
                   threadtable_size, ports, vmarrays, g_ok, g_task, g_thr,
                   decVars>>

(* lines 235-279: identity fields, command line, zombie flag of process i. *)
(* argsOk: sysctl(KERN_PROCARGS2) did not return -1; b: the blob it gave.  *)
proc_basic ==
    /\ pc = "proc"
    /\ i < treesize
    /\ \E argsOk \in BOOLEAN, b \in ScanBlobs :
        LET kp   == kprocs[i + 1]
            blob == IF argsOk THEN BlobBytes(b) ELSE <<>>
            buf  == IF argsOk THEN SysctlProcargs2(args, blob) ELSE args
            cmd  == IF argsOk THEN CmdlineOf(buf, Len(blob)) ELSE <<>>
        IN  /\ args' = buf
            /\ args_size' = IF argsOk THEN Len(blob) ELSE ArgMax
            /\ pt' = [pt EXCEPT ![i + 1] =
                        [@ EXCEPT !.pid = kp.p_pid,
                                  !.ppid = kp.e_ppid,
                                  !.uid = kp.p_ruid,
                                  !.euid = kp.cr_uid,
                                  !.gid = kp.p_rgid,
                                  !.starttime = kp.p_starttime,
                                  !.cmdline = WithFallback(cmd, kp.p_comm),
                                  !.zombie = (kp.p_stat = SZOMB)]]
    /\ pass' = IF isSipEnabled THEN 2 ELSE 1
    /\ pc' = "task_for_pid"
    /\ g_ok' = TRUE
    /\ g_task' = NoTime
    /\ g_thr' = <<>>
    /\ UNCHANGED <<hostVars, systeminfo, cpuVars, memVars, kprocs,
                   treesize, i, j, threadtable_size, ports, vmarrays,
                   tree_ret, reference, decVars>>

(* variant: a denied task access ends the scan with an empty result *)
task_for_pid_abort ==
    /\ pc = "task_for_pid"
    /\ \E ok \in BOOLEAN :
        IF ok
        THEN /\ ports' = ports + 1
             /\ pc' = "task_info"
             /\ UNCHANGED <<pass, i, g_ok, g_task, g_thr, pt, tree_ret>>
        ELSE /\ pc' = "idle"
             /\ tree_ret' = 0
             /\ pt' = <<>>
             /\ UNCHANGED <<pass, i, g_ok, g_task, g_thr, ports>>
    /\ UNCHANGED <<hostVars, systeminfo, cpuVars, memVars, kprocs,
                   treesize, j, threadtable_size, vmarrays, reference,
                   bufVars, decVars>>

(* lines 287 and 318 *)
task_for_pid ==
    /\ pc = "task_for_pid"
    /\ \E ok \in BOOLEAN :
        IF ok
        THEN /\ ports' = ports + 1
             /\ pc' = "task_info"
             /\ UNCHANGED <<pass, i, g_ok, g_task, g_thr>>
        ELSE /\ AfterBlock(FALSE)
             /\ UNCHANGED ports
    /\ UNCHANGED <<hostVars, systeminfo, cpuVars, memVars, kprocs,
                   treesize, pt, j, threadtable_size, vmarrays, tree_ret,
                   reference, bufVars, decVars>>

TaskInfoAnswers == [resident_size : ResidentSizes, times : TaskTimes]

(* variant: the task's time is added to cputime instead of stored *)
task_info_accumulate ==
    /\ pc = "task_info"
    /\ \E ok \in BOOLEAN, ans \in TaskInfoAnswers :
        IF ~ok
        THEN /\ g_ok' = FALSE
             /\ UNCHANGED <<pt, g_task>>
        ELSE /\ pt' = [pt EXCEPT ![i + 1] =
                         [@ EXCEPT !.mem_kbyte = ans.resident_size \div 1024,
                                   !.cputime = @ + CpuTimeOf(ans.times),
                                   !.cpu_percent = 0]]
             /\ g_task' = ans.times
             /\ UNCHANGED g_ok
    /\ pc' = "task_threads"
    /\ UNCHANGED <<hostVars, systeminfo, cpuVars, memVars, kprocs,
                   treesize, i, pass, j, threadtable_size, ports, vmarrays,
                   tree_ret, reference, g_thr, bufVars, decVars>>

(* lines 295-300 and 326-331 *)
task_info ==
    /\ pc = "task_info"
    /\ \E ok \in BOOLEAN, ans \in TaskInfoAnswers :
        IF ~ok
        THEN /\ g_ok' = FALSE
             /\ UNCHANGED <<pt, g_task>>
        ELSE /\ pt' = [pt EXCEPT ![i + 1] =
                         [@ EXCEPT !.mem_kbyte = ans.resident_size \div 1024,
                                   !.cputime = CpuTimeOf(ans.times),
                                   !.cpu_percent = 0]]
             /\ g_task' = ans.times
             /\ UNCHANGED g_ok
    /\ pc' = "task_threads"
    /\ UNCHANGED <<hostVars, systeminfo, cpuVars, memVars, kprocs,
                   treesize, i, pass, j, threadtable_size, ports, vmarrays,
                   tree_ret, reference, g_thr, bufVars, decVars>>

(* lines 301-302 and 332-333; ans: the number of threads listed *)
task_threads ==
    /\ pc = "task_threads"
    /\ \E ok \in BOOLEAN, ans \in 0..MaxThreads :
        IF ~ok
        THEN /\ g_ok' = FALSE
             /\ pc' = "task_release"
             /\ UNCHANGED <<threadtable_size, j, ports, vmarrays>>
        ELSE /\ threadtable_size' = ans
             /\ j' = 0
             /\ ports' = ports + ans
             /\ vmarrays' = vmarrays + 1
             /\ pc' = "thread_loop"
             /\ UNCHANGED g_ok
    /\ UNCHANGED <<hostVars, systeminfo, cpuVars, memVars, kprocs,
                   treesize, pt, i, pass, tree_ret, reference, g_task, g_thr,
                   bufVars, decVars>>

ThreadInfoAnswers == [ok : {TRUE}, idle : BOOLEAN, times : ThreadTimes]
ThreadInfoFailed  == [ok |-> FALSE, idle |-> FALSE, times |-> NoTime]

(* variant: a failed thread_info skips the release of threadtable[j] *)
thread_info_leak ==
    /\ pc = "thread_loop"
    /\ j < threadtable_size
    /\ \E ans \in {ThreadInfoFailed} \cup ThreadInfoAnswers :
        /\ IF ~ans.ok
           THEN /\ g_ok' = FALSE
                /\ UNCHANGED <<pt, ports>>
           ELSE /\ pt' = IF ~ans.idle
                         THEN [pt EXCEPT ![i + 1] =
                                [@ EXCEPT !.cputime = @ + CpuTimeOf(ans.times),
                                          !.cpu_percent = 0]]
                         ELSE pt
                /\ ports' = ports - 1
                /\ UNCHANGED g_ok
        /\ g_thr' = Append(g_thr, ans)
    /\ j' = j + 1
    /\ UNCHANGED <<hostVars, systeminfo, cpuVars, memVars, pc, kprocs,
                   treesize, i, pass, threadtable_size, vmarrays, tree_ret,
                   reference, g_task, bufVars, decVars>>

(* lines 303-312 and 334-343: one iteration of the thread loop, with the   *)
(* release of threadtable[j]                                               *)
thread_info ==
    /\ pc = "thread_loop"
    /\ j < threadtable_size
    /\ \E ans \in {ThreadInfoFailed} \cup ThreadInfoAnswers :
        /\ IF ~ans.ok
           THEN /\ g_ok' = FALSE
                /\ UNCHANGED pt
           ELSE /\ pt' = IF ~ans.idle
                         THEN [pt EXCEPT ![i + 1] =
                                [@ EXCEPT !.cputime = @ + CpuTimeOf(ans.times),
                                          !.cpu_percent = 0]]
                         ELSE pt
                /\ UNCHANGED g_ok
        /\ g_thr' = Append(g_thr, ans)
    /\ ports' = ports - 1
    /\ j' = j + 1
    /\ UNCHANGED <<hostVars, systeminfo, cpuVars, memVars, pc, kprocs,
                   treesize, i, pass, threadtable_size, vmarrays, tree_ret,
                   reference, g_task, bufVars, decVars>>

(* lines 313 and 344: vm_deallocate of the thread array; j and the table   *)
(* size are locals of the block that ends here                            *)
threads_free ==
    /\ pc = "thread_loop"
    /\ j >= threadtable_size
    /\ vmarrays' = vmarrays - 1
    /\ j' = 0
    /\ threadtable_size' = 0
    /\ pc' = "task_release"
    /\ UNCHANGED <<hostVars, systeminfo, cpuVars, memVars, kprocs,
                   treesize, pt, i, pass, ports, tree_ret, reference, g_ok,
                   g_task, g_thr, bufVars, decVars>>

(* lines 315 and 346: mach_port_deallocate of the task port *)
task_release ==
    /\ pc = "task_release"
    /\ ports' = ports - 1
    /\ AfterBlock(g_ok)
    /\ UNCHANGED <<hostVars, systeminfo, cpuVars, memVars, kprocs,
                   treesize, pt, j, threadtable_size, vmarrays, tree_ret,
                   reference, bufVars, decVars>>

(* lines 349-354 *)
scan_end ==
    /\ pc = "proc"
    /\ i >= treesize
    /\ reference' = pt
    /\ tree_ret' = treesize
    /\ pt' = <<>>
    /\ pc' = "idle"
    /\ UNCHANGED <<hostVars, systeminfo, cpuVars, memVars, kprocs,
                   treesize, i, pass, j, threadtable_size, ports, vmarrays,
                   g_ok, g_task, g_thr, bufVars, decVars>>

----------------------------------------------------------------------------
(* Specifications                                                          *)

NoTicks == [s \in CpuStates |-> 0]

Init ==
    /\ initialized = "no"
    /\ hz = 0
    /\ pagesize_kbyte = 0
    /\ total_old = 0
    /\ cpu_user_old = 0
    /\ cpu_syst_old = 0
    /\ isSipEnabled = TRUE
    /\ systeminfo = SystemInfo0
    /\ ncalls = 0
    /\ cpu_ret = FALSE
    /\ k_ticks = NoTicks
    /\ mem_ret = FALSE
    /\ k_vm = [memok |-> FALSE, wire |-> 0, active |-> 0, swapok |-> FALSE,
               xsu_total |-> 0, xsu_used |-> 0]
    /\ pc = "idle"
    /\ kprocs = <<>>
    /\ treesize = 0
    /\ pt = <<>>
    /\ i = 0
    /\ pass = 1
    /\ j = 0
    /\ threadtable_size = 0
    /\ args = ZeroBuffer
    /\ args_size = 0
    /\ ports = 0
    /\ vmarrays = 0
    /\ tree_ret = -1
    /\ reference = <<>>
    /\ g_ok = TRUE
    /\ g_task = NoTime
    /\ g_thr = <<>>
    /\ cmdline = <<>>
    /\ maxread = -1
    /\ ndecoded = 0
    /\ g_blob = NoBlob

(* the cpu sampler *)
NextCpu == used_system_cpu_sysdep
SpecCpu == Init /\ [][NextCpu]_vars

(* the memory sampler *)
NextMem == init_process_info_sysdep \/ used_system_memory_sysdep
SpecMem == Init /\ [][NextMem]_vars

(* the process scan *)
NextTree ==
    \/ init_process_info_sysdep
    \/ scan_begin
    \/ proc_basic
    \/ task_for_pid
    \/ task_info
    \/ task_threads
    \/ thread_info
    \/ threads_free
    \/ task_release
    \/ scan_end
SpecTree == Init /\ [][NextTree]_vars

(* the argument decoder on its own *)
NextArgs == procargs_decode
SpecArgs == Init /\ [][NextArgs]_vars

Next == NextCpu \/ NextMem \/ NextTree \/ NextArgs
Spec == Init /\ [][Next]_vars

----------------------------------------------------------------------------
(* Properties of the process scan (SpecTree)                               *)

(* the latest initprocesstree_sysdep call got its process table and        *)
(* argument size, and has returned                                         *)
ScanReturned == pc = "idle" /\ kprocs # <<>>

\* C1: when isSipEnabled is true, every record of the returned tree has
\* mem_kbyte = 0 and cputime = 0, whatever task_for_pid answers.
C1_RestrictedRecordsZero ==
    (ScanReturned /\ isSipEnabled) =>
        \A k \in 1..Len(reference) :
            reference[k].mem_kbyte = 0 /\ reference[k].cputime = 0

\* C4: when the process-table and argument-size queries succeed, the
\* returned tree has one record per kernel entry, in the kernel's order,
\* carrying that entry's pid, ppid, uid, euid, gid and start time, whatever
\* per-process queries failed.
C4_TreeMatchesKernelTable ==
    ScanReturned =>
        /\ tree_ret = Len(kprocs)
        /\ Len(reference) = Len(kprocs)
        /\ \A k \in 1..Len(kprocs) :
            /\ reference[k].pid = kprocs[k].p_pid
            /\ reference[k].ppid = kprocs[k].e_ppid
            /\ reference[k].uid = kprocs[k].p_ruid
            /\ reference[k].euid = kprocs[k].cr_uid
            /\ reference[k].gid = kprocs[k].p_rgid
            /\ reference[k].starttime = kprocs[k].p_starttime

(* a returned tree of two records in the order (7, 1), the first with its  *)
(* argument query failed (short name as command line) and no task access   *)
C4_Witness ==
    /\ ScanReturned
    /\ Len(reference) = 2
    /\ reference[1].pid = 7
    /\ reference[2].pid = 1
    /\ reference[1].cmdline = <<122>>
    /\ reference[1].mem_kbyte = 0
    /\ reference[2].mem_kbyte > 0

\* C5: every task port, thread port and thread array obtained during a
\* process's enrichment is released before that enrichment ends: outside an
\* enrichment block no kernel handle is held, and when only the task port's
\* release is left exactly that one port is held; so the number of handles
\* held after any number of scans equals the number before the first.
C5_HandlesReleased ==
    /\ pc \in {"idle", "proc", "task_for_pid"} => (ports = 0 /\ vmarrays = 0)
    /\ pc = "task_release" => (ports = 1 /\ vmarrays = 0)

(* a scan has returned in which one task's thread was listed and counted   *)
(* and another process had no thread counted                               *)
C5_Witness ==
    /\ ScanReturned
    /\ ports = 0
    /\ vmarrays = 0
    /\ \E k \in 1..Len(reference) : reference[k].cputime = 14
    /\ \E k \in 1..Len(reference) : reference[k].cputime = 0

(* CPU time in units of 1/10 s and of 1/100 s, from the total microseconds *)
MicroSeconds(t) == (t.us + t.ss) * 1000000 + t.uu + t.su
Tenths(t)       == MicroSeconds(t) \div 100000
Hundredths(t)   == MicroSeconds(t) \div 10000

RECURSIVE ThreadTenths(_)
ThreadTenths(thr) ==
    IF thr = <<>> THEN 0
    ELSE (IF Head(thr).idle THEN 0 ELSE Tenths(Head(thr).times))
         + ThreadTenths(Tail(thr))

RECURSIVE ThreadHundredths(_)
ThreadHundredths(thr) ==
    IF thr = <<>> THEN 0
    ELSE (IF Head(thr).idle THEN 0 ELSE Hundredths(Head(thr).times))
         + ThreadHundredths(Tail(thr))

(* the last enrichment block of process i has made all its queries, and    *)
(* every query made for the process succeeded                              *)
EnrichedOk == pc = "task_release" /\ pass = 2 /\ g_ok

\* C9 (as stated): for a process whose task access and task/thread queries
\* succeed, cputime is, in hundredths of a second, the task's user+system
\* time plus that of each non-idle thread.
C9_CpuTimeHundredths ==
    EnrichedOk =>
        pt[i + 1].cputime = Hundredths(g_task) + ThreadHundredths(g_thr)

\* C9 (amended): for a process whose task access and task/thread queries
\* succeed, cputime is, in tenths of a second, the task's user+system time
\* plus that of each non-idle thread, each thread counted once and idle
\* threads contributing nothing, in restricted and unrestricted mode.
C9_CpuTimeTenths ==
    EnrichedOk =>
        pt[i + 1].cputime = Tenths(g_task) + ThreadTenths(g_thr)

(* unrestricted mode, both blocks ran: a task with 1.11 s and one non-idle *)
(* thread with 0.3 s                                                       *)
C9_Witness ==
    /\ EnrichedOk
    /\ ~isSipEnabled
    /\ Len(g_thr) = 1
    /\ ~g_thr[1].idle
    /\ Tenths(g_task) = 11
    /\ pt[i + 1].cputime = 14

----------------------------------------------------------------------------
(* Properties of the cpu sampler (SpecCpu)                                 *)

\* C2: the first used_system_cpu_sysdep call reports -10 for the user and
\* the system percentage, for every value of the kernel's tick counters.
C2_FirstSampleSentinel ==
    (ncalls = 1 /\ cpu_ret) =>
        /\ systeminfo.total_cpu_user_percent = NotComputable
        /\ systeminfo.total_cpu_syst_percent = NotComputable

(* a step that is a used_system_cpu_sysdep call *)
CpuCall == ncalls' = ncalls + 1

TotalDelta == TotalNew(k_ticks') - TotalNew(k_ticks)

\* C3: for two consecutive successful calls with a positive total-tick
\* delta, the second reports user = 1000 * userDelta / totalDelta and
\* system = 1000 * systemDelta / totalDelta, truncated, the deltas taken
\* against the readings of the call just before (also when that call
\* reported the sentinel), and wait = 0.
C3_PercentFromDeltas ==
    [][(CpuCall /\ ncalls >= 1 /\ cpu_ret /\ cpu_ret' /\ TotalDelta > 0) =>
         /\ systeminfo'.total_cpu_user_percent =
              TruncDiv(1000 * (k_ticks'[CPU_STATE_USER]
                               - k_ticks[CPU_STATE_USER]), TotalDelta)
         /\ systeminfo'.total_cpu_syst_percent =
              TruncDiv(1000 * (k_ticks'[CPU_STATE_SYSTEM]
                               - k_ticks[CPU_STATE_SYSTEM]), TotalDelta)
         /\ systeminfo'.total_cpu_wait_percent = 0]_vars

(* second call, after a call that read all counters at zero (and so       *)
(* reported the sentinel): user delta 1 and system delta 1 of total        *)
(* delta 4                                                                 *)
C3_Witness ==
    /\ ncalls = 2
    /\ cpu_ret
    /\ TotalNew(k_ticks) = 4
    /\ total_old = 4
    /\ systeminfo.total_cpu_user_percent = 250
    /\ systeminfo.total_cpu_syst_percent = 250
    /\ systeminfo.total_cpu_wait_percent = 0

\* C10 (as stated): after every used_system_cpu_sysdep call, successful or
\* not, the three accumulators hold the kernel's tick counters as of that
\* call.
C10_AccumulatorsAlwaysCurrent ==
    ncalls > 0 =>
        /\ total_old = TotalNew(k_ticks)
        /\ cpu_user_old = k_ticks[CPU_STATE_USER]
        /\ cpu_syst_old = k_ticks[CPU_STATE_SYSTEM]

\* C10 (amended): after every used_system_cpu_sysdep call that returns
\* success, sentinel or not, the three accumulators hold the kernel's tick
\* counters as of that call; a call that returns failure leaves them as
\* they were.
C10_AccumulatorsFollowSuccess ==
    [][CpuCall =>
         IF cpu_ret'
         THEN /\ total_old' = TotalNew(k_ticks')
              /\ cpu_user_old' = k_ticks'[CPU_STATE_USER]
              /\ cpu_syst_old' = k_ticks'[CPU_STATE_SYSTEM]
         ELSE UNCHANGED <<total_old, cpu_user_old, cpu_syst_old>>]_vars

(* a sentinel result (total delta not positive) with the accumulators      *)
(* moved to the new, different readings                                    *)
C10_Witness ==
    /\ ncalls >= 2
    /\ cpu_ret
    /\ systeminfo.total_cpu_user_percent = NotComputable
    /\ cpu_user_old = 1
    /\ cpu_user_old = k_ticks[CPU_STATE_USER]
    /\ total_old = 1

----------------------------------------------------------------------------
(* Properties of the memory sampler (SpecMem)                              *)

\* C8: when the memory-statistics query succeeds and the swap query fails,
\* used_system_memory_sysdep returns false, total_mem_kbyte holds this
\* call's (wire + active) * page size, swap_kbyte_max and total_swap_kbyte
\* are both zero, and no other field changes.
C8_SwapFailureZeroesSwap ==
    [][(initialized = "ok" /\ k_vm'.memok /\ ~k_vm'.swapok) =>
         /\ mem_ret' = FALSE
         /\ systeminfo' = [systeminfo EXCEPT
              !.total_mem_kbyte =
                  UsedMemKbyte(k_vm'.wire, k_vm'.active, pagesize_kbyte),
              !.swap_kbyte_max = 0,
              !.total_swap_kbyte = 0]]_vars

----------------------------------------------------------------------------
(* Properties of the argument decoder (SpecArgs)                           *)

\* C6: decoding a blob of declared length L never reads a byte at an
\* offset >= L, also for blobs whose executable path or last argument has
\* no terminating NUL within the first L bytes.
C6_NoReadPastLength ==
    ndecoded > 0 => maxread < args_size

RECURSIVE JoinSp(_)
JoinSp(fields) ==
    IF fields = <<>> THEN <<>>
    ELSE IF Len(fields) = 1 THEN Head(fields)
    ELSE Head(fields) \o <<SP>> \o JoinSp(Tail(fields))

\* C7: for a well-formed blob with argument count n, the command line is
\* the trimmed single-space join of the first min(n, k) fields that follow
\* the executable path (k: the fields in the blob), for every n that fits
\* the 4-byte count.
C7_JoinOfFirstNFields ==
    (ndecoded > 0 /\ g_blob.cut = 0) =>
        cmdline = Trim(JoinSp(SubSeq(g_blob.fields, 1,
                                     Min(g_blob.n, Len(g_blob.fields)))))

====
